---- MODULE Spec2Model ----
(***************************************************************************)
(* Model of screenshot_capture: one run of cli.main, from argument values  *)
(* to exit status, with _collect_times, timeutil.parse_many,               *)
(* timeutil.seconds_to_name and the two ffmpeg.py entry points.            *)
(*                                                                         *)
(* Time values are integers counted in ticks of 10^-(RoundDigits+1) s, one *)
(* decimal digit finer than the rounding key of _collect_times, so that    *)
(* rounding and near-duplicates are real.  Arithmetic is exact: binary     *)
(* floating-point error is not modelled.                                   *)
(***************************************************************************)
EXTENDS Integers, Sequences, FiniteSets, TLC

(***************************************************************************)
(* Constants of the program and bounds of the model                        *)
(***************************************************************************)
\* round(t, 3) in _collect_times
RoundDigits == 3
\* eps = 1e-9 in _collect_times
EpsDigits == 9
\* largest number of values the interval loop appends in the model
MaxGen == 4

TicksPerSecond == 10 ^ (RoundDigits + 1)
TicksPerKey == TicksPerSecond \div (10 ^ RoundDigits)
S(n) == n * TicksPerSecond

(***************************************************************************)
(* Time expressions (str).  shape is what the text looks like after        *)
(* strip(): "empty" is the string "", "space" a whitespace-only string,    *)
(* "hms" a match of _HMS_RE (h = -1: no hours group), "num" a text float() *)
(* accepts (s is its value, possibly negative), "junk" anything else.      *)
(* "none" stands for Python's None (the option was not given).             *)
(***************************************************************************)
Expr(shape, h, m, s) == [shape |-> shape, h |-> h, m |-> m, s |-> s]
None == Expr("none", 0, 0, 0)
EEmpty == Expr("empty", 0, 0, 0)
ESpace == Expr("space", 0, 0, 0)
EJunk == Expr("junk", 0, 0, 0)
Num(v) == Expr("num", 0, 0, v)
HMS(h, m, s) == Expr("hms", h, m, s)

\* Python truthiness of an Optional[str] option value: `if args.start`
Truthy(e) == e.shape \notin {"none", "empty"}

\* Optional[float]
NoFloat == [given |-> FALSE, v |-> 0]
Float(v) == [given |-> TRUE, v |-> v]

(***************************************************************************)
(* timeutil.py                                                             *)
(***************************************************************************)
\* parse_time_to_seconds with the float() fallback failing silently: 0.0, no ValueError
parse_time_lenient(value) ==
    IF value.shape \in {"empty", "space", "none"}
    THEN [ok |-> FALSE, v |-> 0]
    ELSE IF value.shape = "hms"
    THEN [ok |-> TRUE,
          v |-> (IF value.h < 0 THEN 0 ELSE value.h) * 3600 * TicksPerSecond
                + value.m * 60 * TicksPerSecond + value.s]
    ELSE IF value.shape = "num"
    THEN [ok |-> TRUE, v |-> value.s]
    ELSE [ok |-> TRUE, v |-> 0]

\* parse_time_to_seconds: [ok |-> FALSE] is ValueError
parse_time_to_seconds(value) ==
    IF value.shape \in {"empty", "space", "none"}
    THEN [ok |-> FALSE, v |-> 0]
    ELSE IF value.shape = "hms"
    THEN [ok |-> TRUE,
          v |-> (IF value.h < 0 THEN 0 ELSE value.h) * 3600 * TicksPerSecond
                + value.m * 60 * TicksPerSecond + value.s]
    ELSE IF value.shape = "num"
    THEN [ok |-> TRUE, v |-> value.s]
    ELSE [ok |-> FALSE, v |-> 0]

\* the parts of all items in order: `for item in times: for part in item.split(",")`
RECURSIVE Flatten(_)
Flatten(items) ==
    IF items = <<>> THEN <<>> ELSE Head(items) \o Flatten(Tail(items))

\* parse_many: blank parts are skipped, the first bad part raises ValueError
RECURSIVE ParseParts(_, _)
ParseParts(parts, out) ==
    IF parts = <<>> THEN [ok |-> TRUE, vals |-> out]
    ELSE LET part == Head(parts) IN
         IF part.shape \in {"empty", "space"}
         THEN ParseParts(Tail(parts), out)
         ELSE LET r == parse_time_to_seconds(part) IN
              IF r.ok THEN ParseParts(Tail(parts), Append(out, r.v))
              ELSE [ok |-> FALSE, vals |-> <<>>]

parse_many(items) == ParseParts(Flatten(items), <<>>)

\* seconds_to_name: the fields printed into HH-MM-SS.mmm (MM-SS.mmm when h = 0)
seconds_to_name(seconds) ==
    LET sec == IF seconds < 0 THEN 0 ELSE seconds
        h == sec \div (3600 * TicksPerSecond)
        m == (sec % (3600 * TicksPerSecond)) \div (60 * TicksPerSecond)
        s == sec % (60 * TicksPerSecond)
    IN  [h |-> h, m |-> m, s |-> s \div TicksPerSecond,
         ms |-> ((s % TicksPerSecond) * 1000) \div TicksPerSecond]

(***************************************************************************)
(* cli.py: helpers of _collect_times                                       *)
(***************************************************************************)
\* a line of the timestamps file: a comment, or its comma-separated parts
Line(parts) == [comment |-> FALSE, parts |-> parts]
CommentLine == [comment |-> TRUE, parts |-> <<EJunk>>]
BlankLine == Line(<<ESpace>>)

IsBlankLine(l) == Len(l.parts) = 1 /\ l.parts[1].shape \in {"empty", "space"}

\* _read_timestamps_file: the kept lines, as parse_many items
RECURSIVE read_timestamps_file(_)
read_timestamps_file(lines) ==
    IF lines = <<>> THEN <<>>
    ELSE IF IsBlankLine(Head(lines)) \/ Head(lines).comment
    THEN read_timestamps_file(Tail(lines))
    ELSE <<Head(lines).parts>> \o read_timestamps_file(Tail(lines))

\* round(t, 3): nearest multiple of 10^-3 s, an exact tie going to the even one
Round3(t) ==
    LET q == t \div TicksPerKey
        r == t % TicksPerKey
    IN  IF 2 * r < TicksPerKey THEN q * TicksPerKey
        ELSE IF 2 * r > TicksPerKey THEN (q + 1) * TicksPerKey
        ELSE IF q % 2 = 0 THEN q * TicksPerKey ELSE (q + 1) * TicksPerKey

\* the while condition written `t <= end`: a value equal to end is generated
LoopCondInclusive(t, end) == end - t >= 0

\* the while condition `t + eps < end`: eps is 10^-EpsDigits s, below one tick;
\* for integers d = end - t and real eps >= 0, eps < d iff floor(eps) < d
LoopCond(t, end) == end - t > (TicksPerSecond \div (10 ^ EpsDigits))

\* sorted(times)
Sorted(times) == SortSeq(times, LAMBDA a, b : a < b)

\* lines 56-62: the loop over sorted(times) with the set `rounded`
RECURSIVE DedupFrom(_, _, _, _)
DedupFrom(sorted, i, rounded, unique_sorted) ==
    IF i > Len(sorted) THEN unique_sorted
    ELSE LET key == Round3(sorted[i]) IN
         IF key \notin rounded
         THEN DedupFrom(sorted, i + 1, rounded \cup {key}, Append(unique_sorted, key))
         ELSE DedupFrom(sorted, i + 1, rounded, unique_sorted)

\* the same loop appending t itself where the code appends float(key)
RECURSIVE DedupKeepRaw(_, _, _, _)
DedupKeepRaw(sorted, i, rounded, unique_sorted) ==
    IF i > Len(sorted) THEN unique_sorted
    ELSE LET key == Round3(sorted[i]) IN
         IF key \notin rounded
         THEN DedupKeepRaw(sorted, i + 1, rounded \cup {key}, Append(unique_sorted, sorted[i]))
         ELSE DedupKeepRaw(sorted, i + 1, rounded, unique_sorted)

UniqueSortedRaw(times) == DedupKeepRaw(Sorted(times), 1, {}, <<>>)

UniqueSorted(times) == DedupFrom(Sorted(times), 1, {}, <<>>)

(***************************************************************************)
(* Inputs of a run                                                         *)
(***************************************************************************)
\* --start: absent, "", "x", "00:03"
StartArgs == {None, EEmpty, EJunk, HMS(-1, 0, S(3))}
\* --end: absent, "", " ", "3", "10"
EndArgs == {None, EEmpty, ESpace, Num(S(3)), Num(S(10))}
\* -t: absent; -t ""; -t "00:05,x"; -t "3.0004,,-5"; -t 00:05 -t 1.0004
TimestampArgs ==
    { <<>>,
      << <<EEmpty>> >>,
      << <<HMS(-1, 0, S(5)), EJunk>> >>,
      << <<Num(S(3) + 4), EEmpty, Num(0 - S(5))>> >>,
      << <<HMS(-1, 0, S(5))>>, <<Num(S(1) + 4)>> >> }
\* --timestamps-file: absent, "" or a path
NoFile == "None"
FileArgs == {NoFile, "", "times.txt"}
\* what the file holds when it can be read
FileContents ==
    { <<>>,
      <<CommentLine, BlankLine>>,
      <<Line(<<Num(S(1) + 1)>>), CommentLine, Line(<<Num(S(1) + 9), ESpace>>)>>,
      <<Line(<<Num(S(3) - 4)>>), Line(<<EJunk>>)>>,
      <<Line(<<Num(S(3) - 4)>>)>> }
\* -i: absent, -3, 0, 3, 4
IntervalArgs == {NoFloat, Float(0 - S(3)), Float(0), Float(S(3)), Float(S(4))}
\* what ffprobe reports
ProbeDurations == {S(3), S(9)}

(***************************************************************************)
(* State of one run                                                        *)
(***************************************************************************)
VARIABLES
    args,           \* the argparse namespace (the fields main reads)
    haveBinaries,   \* shutil.which finds both ffmpeg and ffprobe
    fsPresent,      \* output paths known to exist
    fsAbsent,       \* output paths known not to exist
    fileState,      \* timestamps file: "unread", "read" or "oserror"
    fileLines,      \* the lines read from the timestamps file
    pc,             \* where main is: main, collect, interval, gen, dedup, loop, exit
    start_s,        \* start_s of main, then start of _collect_times
    end_s,          \* end_s of main, then end of _collect_times
    times,          \* times of _collect_times (before de-duplication)
    t,              \* t of the interval loop
    genCount,       \* number of values the interval loop has appended
    unique_sorted,  \* the list _collect_times returns (times of main)
    idx,            \* idx of the capture loop
    failures,       \* failures of main
    status,         \* exit status of the process, -1 while running
    report,         \* which message the run ended with
    outDirCreated,  \* os.makedirs(out_dir) has run
    requireCalls,   \* number of _require_binaries calls
    probeCalls,     \* number of probe_duration calls
    discovered,     \* where FFmpegNotFoundError was first raised: none, probe, capture
    outcomes        \* one record per Instant the capture loop has handled

vars == <<args, haveBinaries, fsPresent, fsAbsent, fileState, fileLines, pc,
          start_s, end_s, times, t, genCount, unique_sorted, idx, failures,
          status, report, outDirCreated, requireCalls, probeCalls, discovered,
          outcomes>>

envVars == <<args, haveBinaries>>
fsVars == <<fsPresent, fsAbsent>>
fileVars == <<fileState, fileLines>>
collectVars == <<times, t, genCount, unique_sorted>>
loopVars == <<idx, failures, outcomes>>
callVars == <<requireCalls, probeCalls, discovered>>

Init ==
    /\ args \in [start : StartArgs, end : EndArgs, timestamps : TimestampArgs,
                 timestamps_file : FileArgs, interval : IntervalArgs,
                 dry_run : BOOLEAN, overwrite : BOOLEAN]
    /\ haveBinaries \in BOOLEAN
    /\ fsPresent = {}
    /\ fsAbsent = {}
    /\ fileState = "unread"
    /\ fileLines = <<>>
    /\ pc = "main"
    /\ start_s = NoFloat
    /\ end_s = NoFloat
    /\ times = <<>>
    /\ t = 0
    /\ genCount = 0
    /\ unique_sorted = <<>>
    /\ idx = 0
    /\ failures = 0
    /\ status = -1
    /\ report = "running"
    /\ outDirCreated = FALSE
    /\ requireCalls = 0
    /\ probeCalls = 0
    /\ discovered = "none"
    /\ outcomes = <<>>

\* `return code` from main, or parser.error / an uncaught exception ending the process
Exit(code, msg) ==
    /\ pc' = "exit"
    /\ status' = code
    /\ report' = msg

(***************************************************************************)
(* main, lines 92-105: input check, --start/--end, at least one source     *)
(***************************************************************************)
OptTime(e) == IF Truthy(e) THEN parse_time_to_seconds(e) ELSE [ok |-> TRUE, v |-> 0]

\* line 104 with `or` for `and`: any one missing source is a usage error
NoTimeSourceAny ==
    \/ args.timestamps = <<>>
    \/ args.timestamps_file \in {NoFile, ""}
    \/ ~args.interval.given

NoTimeSource ==
    /\ args.timestamps = <<>>
    /\ args.timestamps_file \in {NoFile, ""}
    /\ ~args.interval.given

Validate ==
    /\ pc = "main"
    /\ \E isfile \in BOOLEAN :
        IF ~isfile
        THEN /\ Exit(2, "input not found")
             /\ UNCHANGED <<start_s, end_s>>
        ELSE IF ~OptTime(args.start).ok \/ ~OptTime(args.end).ok
        THEN /\ Exit(2, "bad time")
             /\ UNCHANGED <<start_s, end_s>>
        ELSE IF NoTimeSource
        THEN /\ Exit(2, "usage")
             /\ UNCHANGED <<start_s, end_s>>
        ELSE /\ start_s' = IF Truthy(args.start)
                           THEN Float(OptTime(args.start).v) ELSE NoFloat
             /\ end_s' = IF Truthy(args.end)
                         THEN Float(OptTime(args.end).v) ELSE NoFloat
             /\ pc' = "collect"
             /\ UNCHANGED <<status, report>>
    /\ UNCHANGED <<envVars, fsVars, fileVars, collectVars, loopVars, callVars,
                   outDirCreated>>

(***************************************************************************)
(* _collect_times, lines 32-36: explicit timestamps, then the file         *)
(***************************************************************************)
Explicit == parse_many(args.timestamps)

CollectLists ==
    /\ pc = "collect"
    /\ IF ~Explicit.ok
       THEN /\ Exit(2, "resolution error")
            /\ UNCHANGED <<times, fileVars>>
       ELSE IF args.timestamps_file \in {NoFile, ""}
       THEN /\ times' = Explicit.vals
            /\ pc' = "interval"
            /\ UNCHANGED <<status, report, fileVars>>
       ELSE \/ \* open() raises OSError, which main does not catch
               /\ fileState' = "oserror"
               /\ Exit(1, "traceback")
               /\ UNCHANGED <<times, fileLines>>
            \/ \E lines \in FileContents :
                 LET parsed == parse_many(read_timestamps_file(lines)) IN
                 /\ fileState' = "read"
                 /\ fileLines' = lines
                 /\ IF parsed.ok
                    THEN /\ times' = Explicit.vals \o parsed.vals
                         /\ pc' = "interval"
                         /\ UNCHANGED <<status, report>>
                    ELSE /\ Exit(2, "resolution error")
                         /\ UNCHANGED times
    /\ UNCHANGED <<envVars, fsVars, start_s, end_s, t, genCount, unique_sorted,
                   loopVars, callVars, outDirCreated>>

(***************************************************************************)
(* _collect_times, lines 39-47: defaults, probe, range check               *)
(***************************************************************************)
DefaultStart == IF start_s.given THEN start_s ELSE Float(0)

\* the duration probed whether or not --end was given
NeedsProbeAlways == TRUE

\* line 42, `if end is None`: the duration has to be probed
NeedsProbe == ~end_s.given

\* the interval is requested and end is known: check the range, enter the loop
EnterLoop(end) ==
    /\ start_s' = DefaultStart
    /\ end_s' = Float(end)
    /\ IF end <= DefaultStart.v
       THEN /\ Exit(2, "resolution error")
            /\ UNCHANGED t
       ELSE /\ t' = DefaultStart.v
            /\ pc' = "gen"
            /\ UNCHANGED <<status, report>>

IntervalSetup ==
    /\ pc = "interval"
    /\ IF ~args.interval.given
       THEN /\ pc' = "dedup"
            /\ UNCHANGED <<status, report, start_s, end_s, t, callVars>>
       ELSE IF ~NeedsProbe
       THEN /\ EnterLoop(end_s.v)
            /\ UNCHANGED callVars
       ELSE \* probe_duration: _require_binaries, then ffprobe
            /\ probeCalls' = probeCalls + 1
            /\ requireCalls' = requireCalls + 1
            /\ IF ~haveBinaries
               THEN /\ discovered' = "probe"
                    /\ Exit(2, "resolution error")
                    /\ UNCHANGED <<start_s, end_s, t>>
               ELSE /\ UNCHANGED discovered
                    /\ \/ \* ffprobe fails or prints no number: RuntimeError
                          /\ Exit(2, "resolution error")
                          /\ UNCHANGED <<start_s, end_s, t>>
                       \/ \E d \in ProbeDurations : EnterLoop(d)
    /\ UNCHANGED <<envVars, fsVars, fileVars, times, genCount, unique_sorted,
                   loopVars, outDirCreated>>

(***************************************************************************)
(* _collect_times, lines 51-53: one test of the while condition            *)
(***************************************************************************)
GenStep ==
    /\ pc = "gen"
    /\ IF LoopCond(t, end_s.v)
       THEN /\ genCount < MaxGen
            /\ times' = Append(times, t)
            /\ t' = t + args.interval.v
            /\ genCount' = genCount + 1
            /\ UNCHANGED pc
       ELSE /\ pc' = "dedup"
            /\ UNCHANGED <<times, t, genCount>>
    /\ UNCHANGED <<envVars, fsVars, fileVars, start_s, end_s, unique_sorted,
                   loopVars, callVars, status, report, outDirCreated>>

(***************************************************************************)
(* _collect_times, lines 55-63, and main, lines 128-138                    *)
(***************************************************************************)
CollectReturn ==
    /\ pc = "dedup"
    /\ unique_sorted' = UniqueSorted(times)
    /\ IF UniqueSorted(times) = <<>>
       THEN /\ Exit(1, "nothing to capture")
            /\ UNCHANGED <<outDirCreated, idx>>
       ELSE /\ outDirCreated' = TRUE
            /\ idx' = 1
            /\ pc' = "loop"
            /\ UNCHANGED <<status, report>>
    /\ UNCHANGED <<envVars, fsVars, fileVars, start_s, end_s, times, t, genCount,
                   failures, outcomes, callVars>>

(***************************************************************************)
(* main, lines 139-169: one iteration of the capture loop                  *)
(***************************************************************************)
Outcome(time, path, existed, result) ==
    [t |-> time, path |-> path, existed |-> existed, result |-> result]

\* what os.path.exists(out_path) can answer
ExistsChoices(path) ==
    IF path \in fsPresent THEN {TRUE}
    ELSE IF path \in fsAbsent THEN {FALSE}
    ELSE BOOLEAN

\* capture_frame is called: _require_binaries, then ffmpeg
CaptureFrame(time, path, existed) ==
    /\ requireCalls' = requireCalls + 1
    /\ IF ~haveBinaries
       THEN \* FFmpegNotFoundError
            /\ discovered' = IF discovered = "none" THEN "capture" ELSE discovered
            /\ failures' = failures + 1
            /\ outcomes' = Append(outcomes, Outcome(time, path, existed, "failed"))
            /\ fsPresent' = IF existed THEN fsPresent \cup {path} ELSE fsPresent
            /\ fsAbsent' = IF existed THEN fsAbsent ELSE fsAbsent \cup {path}
       ELSE /\ UNCHANGED discovered
            /\ \/ \* ffmpeg exits 0: the frame is written
                  /\ outcomes' = Append(outcomes, Outcome(time, path, existed, "saved"))
                  /\ fsPresent' = fsPresent \cup {path}
                  /\ fsAbsent' = fsAbsent \ {path}
                  /\ UNCHANGED failures
               \/ \* ffmpeg exits non-zero: RuntimeError
                  /\ failures' = failures + 1
                  /\ outcomes' = Append(outcomes, Outcome(time, path, existed, "failed"))
                  /\ fsPresent' = IF existed THEN fsPresent \cup {path} ELSE fsPresent
                  /\ fsAbsent' = IF existed THEN fsAbsent ELSE fsAbsent \cup {path}

\* the loop without the test of lines 150-152: an existing target is captured again
DecideNoExistsTest(dry_run, exists, overwrite) ==
    IF dry_run THEN "planned" ELSE "capture"

\* lines 146-154: what the loop does with one Instant
Decide(dry_run, exists, overwrite) ==
    IF dry_run THEN "planned"
    ELSE IF exists /\ ~overwrite THEN "skipped"
    ELSE "capture"

\* the loop left at the first failed extraction (fail-fast)
AdvanceFailFast ==
    idx' = IF outcomes'[Len(outcomes')].result = "failed"
           THEN Len(unique_sorted) + 1 ELSE idx + 1

\* the for loop goes on to the next Instant, whatever the outcome was
Advance == idx' = idx + 1

LoopStep ==
    /\ pc = "loop"
    /\ idx <= Len(unique_sorted)
    /\ LET time == unique_sorted[idx]
           path == seconds_to_name(time)
       IN  \E exists \in ExistsChoices(path) :
             LET decision == Decide(args.dry_run, exists, args.overwrite) IN
             IF decision = "capture"
             THEN /\ CaptureFrame(time, path, exists)
                  /\ UNCHANGED probeCalls
             ELSE /\ outcomes' = Append(outcomes, Outcome(time, path, exists, decision))
                  /\ fsPresent' = IF exists THEN fsPresent \cup {path} ELSE fsPresent
                  /\ fsAbsent' = IF exists THEN fsAbsent ELSE fsAbsent \cup {path}
                  /\ UNCHANGED <<failures, callVars>>
    /\ Advance
    /\ UNCHANGED <<envVars, fileVars, pc, start_s, end_s, collectVars, status,
                   report, outDirCreated>>

(***************************************************************************)
(* main, lines 171-174                                                     *)
(***************************************************************************)
Finish ==
    /\ pc = "loop"
    /\ idx > Len(unique_sorted)
    /\ IF failures # 0 THEN Exit(3, "failures") ELSE Exit(0, "ok")
    /\ UNCHANGED <<envVars, fsVars, fileVars, start_s, end_s, collectVars,
                   loopVars, callVars, outDirCreated>>

Next ==
    \/ Validate
    \/ CollectLists
    \/ IntervalSetup
    \/ GenStep
    \/ CollectReturn
    \/ LoopStep
    \/ Finish

Spec == Init /\ [][Next]_vars

(***************************************************************************)
(* Vocabulary of the properties                                            *)
(***************************************************************************)
Done == pc = "exit"

\* _collect_times has returned its list to main
Returned == pc = "loop" \/ report \in {"nothing to capture", "ok", "failures"}

\* _collect_times has just returned: times and unique_sorted change no more
JustReturned == (pc = "loop" /\ idx = 1) \/ report = "nothing to capture"

\* the capture loop was entered
LoopEntered == pc = "loop" \/ report \in {"ok", "failures"}

\* indices of the Instants whose handling called capture_frame
CaptureIdx == {i \in 1..Len(outcomes) : outcomes[i].result \in {"saved", "failed"}}
FailedIdx == {i \in 1..Len(outcomes) : outcomes[i].result = "failed"}

StrictlyIncreasing(seq) == \A i \in 1..Len(seq) : \A j \in 1..Len(seq) : i < j => seq[i] < seq[j]

Range(seq) == {seq[i] : i \in 1..Len(seq)}

\* the values the interval loop has appended: the last genCount entries of times
Generated == SubSeq(times, Len(times) - genCount + 1, Len(times))

(***************************************************************************)
(* C1: in the capture loop a failed extraction never aborts the run: the   *)
(* Instants are handled one by one in ascending order, each exactly once,  *)
(* failures counts the extractions that raised, and the run ends with      *)
(* status 3 when that count is at least 1 and with status 0 otherwise.     *)
(***************************************************************************)
C1_PartialFailure ==
    LoopEntered =>
        /\ Len(outcomes) = (IF Done THEN Len(unique_sorted) ELSE idx - 1)
        /\ \A i \in 1..Len(outcomes) : outcomes[i].t = unique_sorted[i]
        /\ StrictlyIncreasing([i \in 1..Len(outcomes) |-> outcomes[i].t])
        /\ failures = Cardinality(FailedIdx)
        /\ Done => status = (IF Cardinality(FailedIdx) >= 1 THEN 3 ELSE 0)

\* a run that went on after a failure: failed, then saved, then failed again
C1_Witness ==
    /\ Done /\ status = 3 /\ failures = 2
    /\ \E i \in FailedIdx : \E j \in CaptureIdx \ FailedIdx : \E k \in FailedIdx :
         i < j /\ j < k

(***************************************************************************)
(* C2 as stated: whenever a time expression (--start, --end, an explicit   *)
(* timestamp, a line of the timestamps file) is unparseable or empty, or   *)
(* an interval is requested whose resolved end is <= start, the run ends   *)
(* with status 2 and capture_frame is never invoked.  Read in the claim's  *)
(* favour: only runs in which the timestamps file, if given, can be read;  *)
(* "empty" only of --start, --end and a whole -t value, not of the blank   *)
(* lines and blank comma segments that the lists are documented to skip.   *)
(***************************************************************************)
\* the text is empty (after strip) or nothing the parser accepts
C2_BadOrEmpty(e) == e.shape \in {"empty", "space", "junk"}
\* the text is not empty and the parser rejects it
C2_Rejected(e) == e.shape \in {"space", "junk"}
\* a segment of a list that is not blank and that the parser rejects
C2_BadPart(e) == e.shape = "junk"

C2_KeptFileParts == Flatten(read_timestamps_file(fileLines))

\* the interval is requested and its end, once resolved, is not after its start
C2_InvalidRange ==
    /\ args.interval.given
    /\ \/ /\ args.end.shape \in {"num", "hms"}
          /\ args.start.shape \in {"none", "empty", "num", "hms"}
          /\ parse_time_to_seconds(args.end).v
               <= (IF Truthy(args.start) THEN parse_time_to_seconds(args.start).v ELSE 0)
       \/ /\ probeCalls = 1 /\ start_s.given /\ end_s.given
          /\ end_s.v <= start_s.v

C2_FailFastAsStated ==
    (/\ Done
     /\ fileState # "oserror"
     /\ \/ C2_BadOrEmpty(args.start)
        \/ C2_BadOrEmpty(args.end)
        \/ \E item \in Range(args.timestamps) : Len(item) = 1 /\ C2_BadOrEmpty(item[1])
        \/ \E e \in Range(Flatten(args.timestamps)) : C2_BadPart(e)
        \/ fileState = "read" /\ \E e \in Range(C2_KeptFileParts) : C2_BadPart(e)
        \/ C2_InvalidRange)
    => status = 2 /\ CaptureIdx = {}

(***************************************************************************)
(* C2 amended: whenever a time expression that reaches the parser is       *)
(* rejected (a non-empty --start or --end, whitespace-only included; a     *)
(* non-blank segment of an explicit timestamp or of a kept line of the     *)
(* timestamps file), or an interval is requested whose resolved end is     *)
(* <= start, capture_frame is never invoked and neither is the output      *)
(* directory created; the run ends with status 2, unless the range is the  *)
(* only error and the timestamps file cannot be opened.  An empty --start  *)
(* or --end counts as absent and blank segments and lines are skipped.     *)
(***************************************************************************)
C2_ParseError ==
    \/ C2_Rejected(args.start)
    \/ C2_Rejected(args.end)
    \/ \E e \in Range(Flatten(args.timestamps)) : C2_BadPart(e)
    \/ fileState = "read" /\ \E e \in Range(C2_KeptFileParts) : C2_BadPart(e)

C2_FailFast ==
    /\ (C2_ParseError \/ C2_InvalidRange) => CaptureIdx = {} /\ ~outDirCreated
    /\ (Done /\ C2_ParseError) => status = 2
    /\ (Done /\ C2_InvalidRange /\ fileState # "oserror") => status = 2

\* a run stopped by a bad line of the file, and one stopped by the range check
C2_Witness ==
    /\ Done /\ status = 2 /\ report = "resolution error"
    /\ \/ fileState = "read" /\ \E e \in Range(C2_KeptFileParts) : C2_BadPart(e)
       \/ ~C2_ParseError /\ C2_InvalidRange /\ probeCalls = 1

(***************************************************************************)
(* C3: every list _collect_times returns is strictly increasing, has no    *)
(* value below 0 and, when an end bound is known (--end or the probed      *)
(* duration), no value at or above that bound.                             *)
(***************************************************************************)
C3_RequestInvariant ==
    JustReturned =>
        /\ StrictlyIncreasing(unique_sorted)
        /\ \A v \in Range(unique_sorted) : v >= 0
        /\ end_s.given => \A v \in Range(unique_sorted) : v < end_s.v

(***************************************************************************)
(* C4: de-duplication is exactly by the key round(t, 3): the returned list *)
(* holds one element per distinct key among the merged inputs and nothing  *)
(* else, in ascending order; [1.0001, 1.0004, 1.0009] gives [1.0, 1.001].  *)
(***************************************************************************)
C4_DedupByKey ==
    JustReturned =>
        /\ Range(unique_sorted) = {Round3(v) : v \in Range(times)}
        /\ StrictlyIncreasing(unique_sorted)
        /\ \A i \in 1..Len(times) : \A j \in 1..Len(times) :
             (Round3(times[i]) = Round3(times[j]))
               <=> Cardinality({k \in 1..Len(unique_sorted) :
                                  unique_sorted[k] \in {Round3(times[i]), Round3(times[j])}}) = 1
        /\ Range(times) = {S(1) + 1, S(1) + 4, S(1) + 9}
             => unique_sorted = <<S(1), S(1) + TicksPerKey>>

\* 1.0001, 1.0004 and 1.0009 among the inputs: two capture points, 1.0 and 1.001
C4_Witness ==
    /\ JustReturned
    /\ {S(1) + 1, S(1) + 4, S(1) + 9} \subseteq Range(times)
    /\ Len(times) > Len(unique_sorted)
    /\ {v \in Range(unique_sorted) : v < S(2)} = {S(1), S(1) + TicksPerKey}

(***************************************************************************)
(* C5: per Instant, dry-run comes first (no capture_frame, whether or not  *)
(* the target exists or overwrite is set), then an existing target without *)
(* overwrite is skipped and is no failure, and otherwise capture_frame is  *)
(* invoked exactly once; so an existing file reaches extraction only with  *)
(* overwrite, and a dry-run that enters the loop ends with status 0 and no *)
(* extraction.                                                             *)
(***************************************************************************)
C5_LoopDecision ==
    /\ \A i \in 1..Len(outcomes) :
         LET o == outcomes[i] IN
         /\ args.dry_run => o.result = "planned"
         /\ (~args.dry_run /\ o.existed /\ ~args.overwrite) => o.result = "skipped"
         /\ (~args.dry_run /\ ~(o.existed /\ ~args.overwrite)) => o.result \in {"saved", "failed"}
         /\ (o.result \in {"saved", "failed"} /\ o.existed) => args.overwrite
    /\ requireCalls - probeCalls = Cardinality(CaptureIdx)
    /\ failures = Cardinality(FailedIdx)
    /\ (args.dry_run /\ Done /\ LoopEntered) => status = 0 /\ CaptureIdx = {}

\* a run that skipped an existing target, and a dry-run over an existing target
C5_Witness ==
    /\ Done
    /\ \/ /\ status = 0
          /\ \E i \in 1..Len(outcomes) : outcomes[i].result = "skipped"
          /\ \E i \in 1..Len(outcomes) : outcomes[i].result = "saved"
       \/ /\ args.dry_run /\ args.overwrite
          /\ \E i \in 1..Len(outcomes) : outcomes[i].existed

(***************************************************************************)
(* C6: the presence of ffmpeg and ffprobe is checked once, eagerly: when   *)
(* the binaries are missing this is found out before the output directory  *)
(* is created and before the capture loop starts, never first by a         *)
(* capture_frame call in the loop, and the check is not repeated per       *)
(* Instant.                                                                *)
(***************************************************************************)
C6_EagerCheck ==
    /\ (~haveBinaries /\ (outDirCreated \/ pc = "loop")) => discovered = "probe"
    /\ discovered # "capture"
    /\ requireCalls <= 1

(***************************************************************************)
(* C7 as stated: probe_duration is invoked at most once per run, and it is *)
(* invoked if and only if an interval is requested and no explicit end is  *)
(* given.  Read in the claim's favour: only runs that enter                *)
(* _collect_times (the input file exists, --start and --end parse, a time  *)
(* source is given) and in which the timestamps file, if given, can be     *)
(* read.                                                                   *)
(***************************************************************************)
C7_ProbeIffAsStated ==
    /\ probeCalls <= 1
    /\ (Done /\ report \notin {"input not found", "bad time", "usage", "traceback"})
         => (probeCalls = 1 <=> (args.interval.given /\ args.end.shape = "none"))

(***************************************************************************)
(* C7 amended: probe_duration is invoked at most once per run, and only    *)
(* when an interval is requested and --end is absent or empty; it is       *)
(* invoked exactly once in every such run that gets as far as the interval *)
(* (the input file exists, --start parses, every explicit and file         *)
(* timestamp parses and the timestamps file, if given, can be read), and   *)
(* never before that point.                                                *)
(***************************************************************************)
C7_ReachesInterval ==
    /\ report \notin {"input not found", "bad time", "usage", "traceback"}
    /\ pc \notin {"main", "collect", "interval"}
    /\ ~(\E e \in Range(Flatten(args.timestamps)) : C2_BadPart(e))
    /\ ~(fileState = "read" /\ \E e \in Range(C2_KeptFileParts) : C2_BadPart(e))

C7_ProbeOnlyIfNeeded ==
    /\ probeCalls <= 1
    /\ probeCalls = 1 => args.interval.given /\ args.end.shape \in {"none", "empty"}
    /\ pc \in {"main", "collect", "interval"} => probeCalls = 0
    /\ (C7_ReachesInterval /\ args.interval.given /\ args.end.shape \in {"none", "empty"})
         => probeCalls = 1
    /\ (C7_ReachesInterval /\ ~(args.interval.given /\ args.end.shape \in {"none", "empty"}))
         => probeCalls = 0

\* a run that probed once and went on to capture with the probed end
C7_Witness ==
    /\ Done /\ status = 0 /\ probeCalls = 1 /\ end_s = Float(S(9))
    /\ args.end.shape = "none" /\ CaptureIdx # {}

(***************************************************************************)
(* C8: for start (default 0), end > start and step > 0 the interval loop   *)
(* yields exactly start + k*step, k = 0, 1, 2, ..., for the values         *)
(* strictly below end, in ascending order, never a value equal to end:     *)
(* (0, 10, 3) yields [0, 3, 6, 9] and (0, 9, 3) yields [0, 3, 6].          *)
(***************************************************************************)
\* how many k >= 0 have start + k*step < end
C8_Count(start, end, step) ==
    Cardinality({k \in 0..((end - start) \div step) : start + k * step < end})

C8_Expected(start, end, step) ==
    [k \in 1..C8_Count(start, end, step) |-> start + (k - 1) * step]

C8_IntervalValues ==
    (args.interval.given /\ args.interval.v > 0) =>
        /\ pc = "gen" =>
             /\ genCount <= C8_Count(start_s.v, end_s.v, args.interval.v)
             /\ Generated = SubSeq(C8_Expected(start_s.v, end_s.v, args.interval.v), 1, genCount)
        /\ (JustReturned \/ pc = "dedup") =>
             /\ Generated = C8_Expected(start_s.v, end_s.v, args.interval.v)
             /\ \A v \in Range(Generated) : start_s.v <= v /\ v < end_s.v
             /\ StrictlyIncreasing(Generated)
             /\ (start_s.v = 0 /\ end_s.v = S(10) /\ args.interval.v = S(3))
                  => Generated = <<0, S(3), S(6), S(9)>>
             /\ (start_s.v = 0 /\ end_s.v = S(9) /\ args.interval.v = S(3))
                  => Generated = <<0, S(3), S(6)>>

\* the loop has ended for (0, 9, 3), where the next multiple of the step is end itself
C8_Witness ==
    /\ pc = "dedup" /\ args.interval = Float(S(3))
    /\ start_s = Float(0) /\ end_s = Float(S(9))
    /\ Generated = <<0, S(3), S(6)>>

(***************************************************************************)
(* C9 as stated: whenever the explicit timestamps and the timestamps file  *)
(* contribute no Instant and no interval is given, the run reports         *)
(* "nothing to capture" and ends with status 1, creating no output         *)
(* directory and invoking no extraction, both when the options are absent  *)
(* and when they are present but hold no time expression.  Read in the     *)
(* claim's favour: only runs whose input file exists and whose --start and *)
(* --end parse.                                                            *)
(***************************************************************************)
\* neither list holds a time expression, and no interval is given
C9_NoInstants ==
    /\ ~args.interval.given
    /\ \A e \in Range(Flatten(args.timestamps)) : e.shape \in {"empty", "space"}
    /\ \/ args.timestamps_file \in {NoFile, ""}
       \/ fileState = "read" /\ read_timestamps_file(fileLines) = <<>>
       \/ fileState = "read"
          /\ \A e \in Range(C2_KeptFileParts) : e.shape \in {"empty", "space"}

\* none of the three options carries a value
C9_OptionsAbsent ==
    /\ args.timestamps = <<>>
    /\ args.timestamps_file \in {NoFile, ""}
    /\ ~args.interval.given

C9_NothingToCaptureAsStated ==
    (Done /\ C9_NoInstants /\ report \notin {"input not found", "bad time"}) =>
        /\ status = 1 /\ report = "nothing to capture"
        /\ ~outDirCreated /\ CaptureIdx = {}

(***************************************************************************)
(* C9 amended: in a run whose input file exists and whose --start and      *)
(* --end parse, when the explicit timestamps and the timestamps file       *)
(* contribute no Instant and no interval is given, no output directory is  *)
(* created and no extraction is invoked; the run reports "nothing to       *)
(* capture" with status 1 when -t or --timestamps-file is present          *)
(* (non-empty) but holds no time expression, and ends with the usage error *)
(* of status 2 when the options are absent altogether.                     *)
(***************************************************************************)
C9_NothingToCapture ==
    (Done /\ C9_NoInstants /\ report \notin {"input not found", "bad time"}) =>
        /\ ~outDirCreated /\ CaptureIdx = {} /\ outcomes = <<>>
        /\ unique_sorted = <<>>
        /\ IF C9_OptionsAbsent
           THEN status = 2 /\ report = "usage"
           ELSE status = 1 /\ report = "nothing to capture"

\* a run with -t "" and a file of comments and blank lines only
C9_Witness ==
    /\ Done /\ status = 1 /\ report = "nothing to capture"
    /\ args.timestamps # <<>> /\ fileState = "read" /\ fileLines # <<>>
    /\ C9_NoInstants

(***************************************************************************)
(* C10: every run ends with an exit status in {0, 1, 2, 3} for any value   *)
(* of the interval step: the interval loop always reaches its exit         *)
(* condition (each iteration brings t closer to end) or the spec is        *)
(* rejected before generation.                                             *)
(***************************************************************************)
C10_GenLoopReachesExit ==
    [][(pc = "gen" /\ pc' = "gen") => (end_s.v - t' < end_s.v - t)]_vars

====
